---- MODULE Spec2Model ----
(***************************************************************************)
(* Model of the two schema-introspection adapters, postgresql_mcp and      *)
(* scylladb_mcp: the identifier validator, the connection manager          *)
(* (connect / close), the introspection operations of db.py and the        *)
(* scoped get_db wrapper of __main__.py.                                    *)
(*                                                                         *)
(* A name is a sequence of one-character strings.  A driver handle (a      *)
(* psycopg2 connection, a cassandra Cluster or Session) is an entry of the *)
(* sequence `handles`; a manager field holds the index of a handle, or     *)
(* None (0).  What the drivers and the server do (a connect that fails, a  *)
(* query that errors, a connection that breaks) is an input of the action. *)
(***************************************************************************)
EXTENDS Integers, Sequences, FiniteSets, TLC

VARIABLES
    vcall,      \* the last standalone validate_name call and its outcome
    sortcall,   \* the last column list normalised by describe_table's sort
    program,    \* which program runs: its backend and its entry point
    db,         \* the directly constructed DatabaseManager
    handles,    \* the driver handles opened so far
    last        \* the last call made on a manager or through a tool

vars == <<vcall, sortcall, program, db, handles, last>>

(***************************************************************************)
(* Bounds                                                                  *)
(***************************************************************************)
MaxNameLen == 3
MaxCols == 3
\* The connections and clusters a program opens (a session comes with its
\* cluster).
MaxHandles == 2

\* None as the value of a manager field (handle indices start at 1).
None == 0

(***************************************************************************)
(* Identifier validator: re.match(r"^[a-zA-Z0-9_]+$", name)                *)
(***************************************************************************)
\* Representatives of [a-zA-Z0-9_].
NameClass == {"a", "Z", "7", "_"}

\* Characters names are drawn from: the class, the characters the tests
\* reject and a newline.
Chars == NameClass \cup {" ", ";", "-", "/", ".", "'", "\n"}

\* Python's "$" (no MULTILINE flag) matches at the end of the string and
\* also just before a newline that is the last character of the string.
DollarAt(name, k) ==
    \/ k = Len(name)
    \/ k = Len(name) - 1 /\ name[Len(name)] = "\n"

\* re.match(r"^[a-zA-Z0-9_]+$", name): a prefix of k >= 1 class characters
\* followed by a position where "$" matches.
ReMatch(name) ==
    \E k \in 1..Len(name) :
        /\ \A i \in 1..k : name[i] \in NameClass
        /\ DollarAt(name, k)

NoError == [type |-> "none", msg |-> <<>>]

\* ValueError(f"Invalid {type_desc}: {name}")
InvalidError(type_desc, name) ==
    [type |-> "ValueError", msg |-> <<"Invalid", type_desc, name>>]

\* validate_name(name, type_desc): the error raised, or NoError.
validate_name(name, type_desc) ==
    IF ~ReMatch(name) THEN InvalidError(type_desc, name) ELSE NoError

RECURSIVE SeqsUpTo(_, _)
SeqsUpTo(S, n) ==
    IF n = 0 THEN {<<>>}
    ELSE LET shorter == SeqsUpTo(S, n - 1)
         IN  shorter \cup {Append(s, c) : s \in shorter, c \in S}

Names == SeqsUpTo(Chars, MaxNameLen)

KindLabels == {"name", "schema name", "keyspace name", "table name"}

NoVCall ==
    [name |-> <<>>, type_desc |-> "none", called |-> FALSE, err |-> NoError]

\* DatabaseManager.validate_name called standalone, as the tests do.
ValidateCall ==
    /\ ~vcall.called
    /\ vcall.type_desc # "none"
    /\ vcall' = [vcall EXCEPT
                   !.called = TRUE,
                   !.err = validate_name(vcall.name, vcall.type_desc)]
    /\ UNCHANGED <<sortcall, program, db, handles, last>>

(***************************************************************************)
(* Wide-column describe_table: the sort of the column list                 *)
(***************************************************************************)
Kinds == {"partition_key", "clustering", "static", "regular"}

\* A position is <<p>>, or <<>> for None.
NoPosition == <<>>
PositionValues == {0, 1, 999, 1000}
Positions == {NoPosition} \cup {<<p>> : p \in PositionValues}

Columns == [kind : Kinds, position : Positions]

\* 0 if partition_key else 1 if clustering else 2 if static else 3
KindRank(kind) ==
    IF kind = "partition_key" THEN 0
    ELSE IF kind = "clustering" THEN 1
    ELSE IF kind = "static" THEN 2
    ELSE 3

\* x["position"] if x["position"] is not None else 999
MissingPositionKey == 999
PositionKey(position) ==
    IF position # NoPosition THEN position[1] ELSE MissingPositionKey

SortKey(col) == <<KindRank(col.kind), PositionKey(col.position)>>

\* Tuple comparison of two sort keys.
KeyLess(a, b) == a[1] < b[1] \/ (a[1] = b[1] /\ a[2] < b[2])

\* list.sort is stable: col goes after every element whose key is not
\* greater than its own.
InsertColumn(sorted, col) ==
    LET n == Cardinality({i \in 1..Len(sorted) :
                             ~KeyLess(SortKey(col), SortKey(sorted[i]))})
    IN  SubSeq(sorted, 1, n) \o <<col>> \o SubSeq(sorted, n + 1, Len(sorted))

RECURSIVE SortFrom(_, _, _)
SortFrom(cols, i, sorted) ==
    IF i > Len(cols) THEN sorted
    ELSE SortFrom(cols, i + 1, InsertColumn(sorted, cols[i]))

\* columns.sort(key=lambda x: (kind rank, position or 999))
SortColumns(cols) == SortFrom(cols, 1, <<>>)

Col(kind, p) == [kind |-> kind, position |-> <<p>>]

\* The column list of the specification's example.
ExampleColumns ==
    <<Col("regular", 1), Col("partition_key", 0),
      Col("clustering", 0), Col("static", 2)>>

ColumnLists == SeqsUpTo(Columns, MaxCols) \cup {ExampleColumns}

NoSortCall == [rows |-> <<>>, sorted |-> FALSE, columns |-> <<>>]

\* The normalisation step of describe_table applied to the rows the backend
\* returned.
SortCall ==
    /\ ~sortcall.sorted
    /\ sortcall' = [sortcall EXCEPT !.sorted = TRUE,
                                    !.columns = SortColumns(sortcall.rows)]
    /\ UNCHANGED <<vcall, program, db, handles, last>>

(***************************************************************************)
(* Connection managers                                                     *)
(***************************************************************************)
Backends == {"postgresql", "scylladb"}

\* A configuration records which credentials are present (non-empty).
Credentials == {"user", "password", "database"}

\* The relational configurations tried: complete, or one credential absent.
Configs(b) ==
    IF b = "postgresql"
    THEN {cfg \in [Credentials -> BOOLEAN] :
             Cardinality({k \in Credentials : ~cfg[k]}) <= 1}
    ELSE {cfg \in [Credentials -> BOOLEAN] : ~cfg.database}

EmptyConfig == [user |-> FALSE, password |-> FALSE, database |-> FALSE]

\* __init__: the configuration is stored, every handle field is None.
\* postgresql uses conn; scylladb uses cluster and session.
NewManager(config) ==
    [constructed |-> TRUE, config |-> config,
     conn |-> None, cluster |-> None, session |-> None]

NoManager == [NewManager(EmptyConfig) EXCEPT !.constructed = FALSE]

\* A driver handle: a psycopg2 connection, a cassandra Cluster or Session.
\* live is "not conn.closed" / "not is_shutdown"; parent is the Cluster of a
\* Session; endedBy tells who ended the handle.
NewHandle(b, kind, owner, parent) ==
    [backend |-> b, kind |-> kind, owner |-> owner, parent |-> parent,
     live |-> TRUE, readonly |-> FALSE, endedBy |-> "none"]

LogRecord(level, text, targets) ==
    [level |-> level, text |-> text, targets |-> targets]

DriverError(b, what) ==
    [type |-> IF b = "postgresql" THEN "psycopg2.Error" ELSE "Exception",
     msg |-> <<what>>]

\* An exception of the relational driver that is not a psycopg2.Error.
OtherError(what) == [type |-> "TypeError", msg |-> <<what>>]

\* The running call: the manager it acts on, the handles, and what the call
\* has done so far.
NewCall(m, hs) ==
    [m |-> m, hs |-> hs, err |-> NoError, returned |-> FALSE,
     result |-> <<>>, connects |-> 0, queries |-> <<>>, opened |-> {},
     closes |-> <<>>, log |-> <<>>,
     connectFailed |-> FALSE, queryFailed |-> FALSE]

Raised(c) == c.err # NoError

PgConnectOutcomes ==
    {"ok", "connect_error", "connect_other_error", "set_session_error"}

\* connect() without the test of self.conn: a connection is opened by every
\* call.
PgConnectAlways(c, owner, o) ==
    IF o \in {"connect_error", "connect_other_error"}
    THEN [c EXCEPT !.connects = @ + 1,
                   !.connectFailed = TRUE,
                   !.err = IF o = "connect_error"
                           THEN DriverError("postgresql", "connect")
                           ELSE OtherError("connect")]
    ELSE LET h == Len(c.hs) + 1
             conn == [NewHandle("postgresql", "connection", owner, None)
                         EXCEPT !.readonly = (o = "ok")]
             opened == [c EXCEPT !.hs = Append(@, conn),
                                 !.m.conn = h,
                                 !.connects = @ + 1,
                                 !.opened = @ \cup {h}]
         IN  IF o = "ok" THEN opened
             ELSE [opened EXCEPT
                     !.connectFailed = TRUE,
                     !.err = DriverError("postgresql", "set_session")]

\* postgresql connect().  o is what the driver does: psycopg2.connect raises
\* (a psycopg2.Error, or another exception), or it returns a connection and
\* set_session(readonly=True) succeeds or raises.
PgConnect(c, owner, o) ==
    IF c.m.conn = None \/ ~c.hs[c.m.conn].live
    THEN IF o \in {"connect_error", "connect_other_error"}
         THEN [c EXCEPT
                 !.connects = @ + 1,
                 !.connectFailed = TRUE,
                 !.err = IF o = "connect_error"
                         THEN DriverError("postgresql", "connect")
                         ELSE OtherError("connect"),
                 !.log = IF o = "connect_error"
                         THEN Append(@, LogRecord("error",
                                  "Error connecting to database", <<>>))
                         ELSE @]
         ELSE LET h == Len(c.hs) + 1
                  conn == [NewHandle("postgresql", "connection", owner, None)
                              EXCEPT !.readonly = (o = "ok")]
                  opened == [c EXCEPT !.hs = Append(@, conn),
                                      !.m.conn = h,
                                      !.connects = @ + 1,
                                      !.opened = @ \cup {h}]
              IN  IF o = "ok" THEN opened
                  ELSE [opened EXCEPT
                          !.connectFailed = TRUE,
                          !.err = DriverError("postgresql", "set_session"),
                          !.log = Append(@, LogRecord("error",
                                      "Error connecting to database", <<>>))]
    ELSE c

ScConnectOutcomes ==
    {"ok", "cluster_error", "connect_error_shutdown", "connect_error_live"}

\* scylladb connect().  o is what the driver does: int(port) or Cluster(...)
\* raises; or the Cluster is built and cluster.connect() returns a session,
\* or raises after the driver shut the cluster down, or raises leaving the
\* cluster as it is.
ScConnect(c, owner, o) ==
    IF c.m.session = None \/ ~c.hs[c.m.session].live
    THEN LET failure ==
                 [c EXCEPT
                    !.connectFailed = TRUE,
                    !.err = DriverError("scylladb", "connect"),
                    !.log = Append(@, LogRecord("error",
                                "Error connecting to ScyllaDB", <<>>))]
         IN  IF o = "cluster_error" THEN failure
             ELSE LET k == Len(c.hs) + 1
                      cluster == NewHandle("scylladb", "cluster", owner, None)
                      built == [failure EXCEPT
                                  !.hs = Append(@, cluster),
                                  !.m.cluster = k,
                                  !.connects = @ + 1,
                                  !.opened = @ \cup {k}]
                  IN  IF o = "connect_error_live" THEN built
                      ELSE IF o = "connect_error_shutdown"
                      THEN [built EXCEPT !.hs[k].live = FALSE,
                                         !.hs[k].endedBy = "backend"]
                      ELSE [built EXCEPT
                              !.hs = Append(@, NewHandle("scylladb",
                                                "session", owner, k)),
                              !.m.session = k + 1,
                              !.opened = @ \cup {k + 1},
                              !.connectFailed = FALSE,
                              !.err = NoError,
                              !.log = Append(c.log, LogRecord("info",
                                          "Connected to ScyllaDB cluster",
                                          <<>>))]
    ELSE c

ConnectOutcomes(b) ==
    IF b = "postgresql" THEN PgConnectOutcomes ELSE ScConnectOutcomes

connect(b, c, owner, o) ==
    IF b = "postgresql" THEN PgConnect(c, owner, o) ELSE ScConnect(c, owner, o)

\* handle.close() / handle.shutdown() as the driver performs it: a no-op on a
\* handle that is already closed; shutting a Cluster down shuts its sessions.
DriverClose(hs, h) ==
    [i \in 1..Len(hs) |->
        IF hs[i].live /\ (i = h \/ hs[i].parent = h)
        THEN [hs[i] EXCEPT !.live = FALSE, !.endedBy = "manager"]
        ELSE hs[i]]

CallClose(c, h) ==
    [c EXCEPT !.hs = DriverClose(@, h), !.closes = Append(@, h)]

\* postgresql close()
PgClose(c) ==
    IF c.m.conn # None /\ c.hs[c.m.conn].live
    THEN CallClose(c, c.m.conn)
    ELSE c

\* close() that shuts the session down and forgets the cluster.
ScCloseSessionOnly(c) ==
    IF c.m.session # None /\ c.hs[c.m.session].live
    THEN CallClose(c, c.m.session)
    ELSE c

\* scylladb close()
ScClose(c) ==
    LET c1 == IF c.m.session # None /\ c.hs[c.m.session].live
              THEN CallClose(c, c.m.session)
              ELSE c
    IN  IF c1.m.cluster # None THEN CallClose(c1, c1.m.cluster) ELSE c1

close(b, c) == IF b = "postgresql" THEN PgClose(c) ELSE ScClose(c)

(***************************************************************************)
(* Introspection operations                                                *)
(***************************************************************************)
Ops(b) ==
    IF b = "postgresql"
    THEN {"list_schemas", "list_tables", "describe_table",
          "get_table_indexes", "get_table_constraints"}
    ELSE {"list_keyspaces", "list_tables", "describe_table",
          "get_table_indexes", "get_materialized_views"}

\* The number of identifier arguments of an operation.
Arity(op) ==
    IF op \in {"list_schemas", "list_keyspaces"} THEN 0
    ELSE IF op \in {"list_tables", "get_materialized_views"} THEN 1
    ELSE 2

\* The type_desc the operations pass for their first argument.
NamespaceLabel(b) ==
    IF b = "postgresql" THEN "schema name" ELSE "keyspace name"

\* The validate_name calls that open an operation, in the order of the code.
ValidateArgs(b, op, a1, a2) ==
    LET e1 == IF Arity(op) >= 1
              THEN validate_name(a1, NamespaceLabel(b))
              ELSE NoError
    IN  IF e1 # NoError THEN e1
        ELSE IF Arity(op) = 2 THEN validate_name(a2, "table name")
        ELSE NoError

\* The text of the logger.error call of an operation's except clause.
ErrorText(b, op) ==
    IF op = "list_schemas" THEN "Error listing schemas"
    ELSE IF op = "list_keyspaces" THEN "Error listing keyspaces"
    ELSE IF op = "list_tables"
    THEN (IF b = "postgresql" THEN "Error listing tables in schema"
          ELSE "Error listing tables in keyspace")
    ELSE IF op = "describe_table" THEN "Error describing table"
    ELSE IF op = "get_table_indexes" THEN "Error getting indexes for table"
    ELSE IF op = "get_table_constraints"
    THEN "Error getting constraints for table"
    ELSE "Error getting materialized views in keyspace"

\* The identifiers an operation interpolates into its error log record.
Targets(op, a1, a2) ==
    IF Arity(op) = 0 THEN <<>>
    ELSE IF Arity(op) = 1 THEN <<a1>>
    ELSE <<a1, a2>>

\* The handle an operation runs its query on: self.conn / self.session.
SessionOf(b, m) == IF b = "postgresql" THEN m.conn ELSE m.session

\* Rows of names are sequences of numbers ordered as the names are.
InsertName(sorted, x) ==
    LET n == Cardinality({i \in 1..Len(sorted) : sorted[i] <= x})
    IN  SubSeq(sorted, 1, n) \o <<x>> \o SubSeq(sorted, n + 1, Len(sorted))

RECURSIVE SortNamesFrom(_, _, _)
SortNamesFrom(rows, i, sorted) ==
    IF i > Len(rows) THEN sorted
    ELSE SortNamesFrom(rows, i + 1, InsertName(sorted, rows[i]))

\* sorted(...) of a list of names
SortNames(rows) == SortNamesFrom(rows, 1, <<>>)

NameRows == {<<>>, <<2, 1>>}
ColumnRows == {<<>>, <<Col("regular", 1), Col("partition_key", 0)>>}

\* The rows the backend may return to an operation.
Rows(b, op) ==
    IF b = "scylladb" /\ op = "describe_table" THEN ColumnRows ELSE NameRows

\* What an operation does to the rows before it returns them.  The
\* relational operations return the rows in the order of the server.
Normalise(b, op, rows) ==
    IF b = "postgresql" THEN rows
    ELSE IF op = "describe_table" THEN SortColumns(rows)
    ELSE IF op = "get_table_indexes" THEN rows
    ELSE SortNames(rows)

QueryOutcomes(b) ==
    IF b = "postgresql" THEN {"ok", "error", "error_broken"}
    ELSE {"ok", "error"}

\* An except clause that logs the failure and returns an empty list.
ExecuteSwallow(b, op, a1, a2, c, q, rows) ==
    LET h == SessionOf(b, c.m)
        executed == [c EXCEPT !.queries = Append(@, h)]
    IN  IF q = "ok"
        THEN [executed EXCEPT !.returned = TRUE,
                              !.result = Normalise(b, op, rows)]
        ELSE [executed EXCEPT
                !.queryFailed = TRUE,
                !.returned = TRUE,
                !.log = Append(@, LogRecord("error", ErrorText(b, op),
                                            Targets(op, a1, a2)))]

\* The try block of an operation: the query runs on the manager's session.
\* q is what the backend does: it answers with rows, or the query raises,
\* or (postgresql) it raises because the connection broke, which leaves
\* conn.closed set.
Execute(b, op, a1, a2, c, q, rows) ==
    LET h == SessionOf(b, c.m)
        executed == [c EXCEPT !.queries = Append(@, h)]
    IN  IF q = "ok"
        THEN [executed EXCEPT !.returned = TRUE,
                              !.result = Normalise(b, op, rows)]
        ELSE [executed EXCEPT
                !.queryFailed = TRUE,
                !.err = DriverError(b, "execute"),
                !.log = Append(@, LogRecord("error", ErrorText(b, op),
                                            Targets(op, a1, a2))),
                !.hs[h] = IF q = "error_broken"
                          THEN [@ EXCEPT !.live = FALSE,
                                         !.endedBy = "backend"]
                          ELSE @]

\* An operation that tries connect() a second time when the first raised.
OperationRetryConnect(b, op, a1, a2, c, owner, o, q, rows) ==
    LET e == ValidateArgs(b, op, a1, a2)
    IN  IF e # NoError THEN [c EXCEPT !.err = e]
        ELSE LET first == connect(b, c, owner, o)
                 c1 == IF Raised(first)
                       THEN connect(b, [first EXCEPT !.err = NoError],
                                    owner, o)
                       ELSE first
             IN  IF Raised(c1) THEN c1
                 ELSE Execute(b, op, a1, a2, c1, q, rows)

\* An introspection operation of DatabaseManager: validate, connect, query.
Operation(b, op, a1, a2, c, owner, o, q, rows) ==
    LET e == ValidateArgs(b, op, a1, a2)
    IN  IF e # NoError THEN [c EXCEPT !.err = e]
        ELSE LET c1 == connect(b, c, owner, o)
             IN  IF Raised(c1) THEN c1
                 ELSE Execute(b, op, a1, a2, c1, q, rows)

CredentialsError ==
    [type |-> "ValueError",
     msg |-> <<"Database credentials are required">>]

\* A check of the user only.
CredentialsMissingUserOnly(b, env) == b = "postgresql" /\ ~env.user

\* get_db of postgresql raises before it constructs a manager when a
\* credential is empty; get_db of scylladb has no such check.
CredentialsMissing(b, env) ==
    b = "postgresql" /\ (~env.user \/ ~env.password \/ ~env.database)

\* get_db with the close after the yield instead of in a finally clause.
ToolCloseOnReturn(b, op, a1, a2, env, hs, o, q, rows) ==
    IF CredentialsMissing(b, env)
    THEN [NewCall(NoManager, hs) EXCEPT !.err = CredentialsError]
    ELSE LET c == Operation(b, op, a1, a2, NewCall(NewManager(env), hs),
                            "tool", o, q, rows)
         IN  IF Raised(c) THEN c ELSE close(b, c)

\* A tool: "with get_db() as db: return db.<op>(...)".  The manager is
\* constructed for the call and closed in the finally clause of get_db.
Tool(b, op, a1, a2, env, hs, o, q, rows) ==
    IF CredentialsMissing(b, env)
    THEN [NewCall(NoManager, hs) EXCEPT !.err = CredentialsError]
    ELSE close(b, Operation(b, op, a1, a2, NewCall(NewManager(env), hs),
                            "tool", o, q, rows))

(***************************************************************************)
(* State machine                                                           *)
(***************************************************************************)
\* Identifier arguments: a valid name, a name followed by a newline, a name
\* the tests reject.
FirstArgNames == {<<"a">>, <<"a", "\n">>, <<";">>}
SecondArgNames == {<<"a">>, <<";">>}

FirstArgs(op) == IF Arity(op) >= 1 THEN FirstArgNames ELSE {<<>>}
SecondArgs(op) == IF Arity(op) = 2 THEN SecondArgNames ELSE {<<>>}

\* What the driver and the backend do during one call: the outcome of the
\* connect, of the query, and the rows returned.  A step that is not reached
\* has one value only.
DriverBehaviours(b, op) ==
    {d \in [connect : ConnectOutcomes(b), query : QueryOutcomes(b),
            rows : Rows(b, op)] :
        /\ d.connect # "ok" => d.query = "ok"
        /\ (d.connect # "ok" \/ d.query # "ok") => d.rows = <<>>}

\* The two programs are separate processes; a process is the tool server of
\* __main__.py or a program that uses DatabaseManager as a library, as the
\* tests do.
Programs == [backend : Backends, entry : {"server", "library"}]

\* The record of a finished call.  via is "direct" for a method called on
\* the manager db and "tool" for a tool; config is the configuration the
\* call ran with; changed tells whether the call changed a manager field or
\* a handle.
Finished(via, op, a1, a2, config, c, changed) ==
    [via |-> via, op |-> op, a1 |-> a1, a2 |-> a2,
     config |-> config, constructed |-> c.m.constructed,
     err |-> c.err, returned |-> c.returned, result |-> c.result,
     connects |-> c.connects, queries |-> c.queries, opened |-> c.opened,
     closes |-> c.closes, log |-> c.log,
     connectFailed |-> c.connectFailed, queryFailed |-> c.queryFailed,
     changed |-> changed]

NoCall ==
    Finished("none", "none", <<>>, <<>>, EmptyConfig,
             NewCall(NoManager, <<>>), FALSE)

Init ==
    /\ program \in Programs
    /\ vcall = NoVCall
    /\ sortcall = NoSortCall
    /\ db = NoManager
    /\ handles = <<>>
    /\ last = NoCall

\* The connections and clusters among the handles.
Transports(hs) ==
    {h \in 1..Len(hs) : hs[h].kind \in {"connection", "cluster"}}

\* The outcome c of a call becomes the state.  A tool constructs its own
\* manager, which is gone when the tool returns: handles then holds the
\* handles of that manager until the next tool is called.
Commit(via, op, a1, a2, config, c, changed) ==
    /\ Cardinality(Transports(c.hs)) <= MaxHandles
    /\ handles' = c.hs
    /\ db' = IF via = "direct" THEN c.m ELSE db
    /\ last' = Finished(via, op, a1, a2, config, c, changed)
    /\ UNCHANGED <<program, vcall, sortcall>>

\* DatabaseManager(db_config) constructed directly, with any configuration.
Construct ==
    /\ program.entry = "library"
    /\ ~db.constructed
    /\ \E config \in Configs(program.backend) :
           Commit("direct", "__init__", <<>>, <<>>, config,
                  NewCall(NewManager(config), handles), TRUE)

\* db.connect()
Connect ==
    /\ db.constructed
    /\ \E o \in ConnectOutcomes(program.backend) :
         LET c == connect(program.backend, NewCall(db, handles), "direct", o)
         IN  Commit("direct", "connect", <<>>, <<>>, db.config, c,
                    c.hs # handles \/ c.m # db)

\* db.close()
Close ==
    /\ db.constructed
    /\ LET c == close(program.backend, NewCall(db, handles))
       IN  Commit("direct", "close", <<>>, <<>>, db.config, c,
                  c.hs # handles \/ c.m # db)

\* db.<op>(a1, a2)
Invoke ==
    /\ db.constructed
    /\ \E op \in Ops(program.backend) :
         \E a1 \in FirstArgs(op), a2 \in SecondArgs(op),
            d \in DriverBehaviours(program.backend, op) :
              LET c == Operation(program.backend, op, a1, a2,
                                 NewCall(db, handles), "direct",
                                 d.connect, d.query, d.rows)
              IN  Commit("direct", op, a1, a2, db.config, c,
                         c.hs # handles \/ c.m # db)

\* A tool of __main__.py called by the tool framework, with any environment.
ToolCall ==
    /\ program.entry = "server"
    /\ \E op \in Ops(program.backend), env \in Configs(program.backend) :
         \E a1 \in FirstArgs(op), a2 \in SecondArgs(op),
            d \in DriverBehaviours(program.backend, op) :
              LET c == Tool(program.backend, op, a1, a2, env, <<>>,
                            d.connect, d.query, d.rows)
              IN  Commit("tool", op, a1, a2, env, c, c.hs # <<>>)

Next ==
    \/ Construct
    \/ Connect
    \/ Close
    \/ Invoke
    \/ ToolCall

Spec == Init /\ [][Next]_vars

\* validate_name applied to each name and label, on either backend.
InitValidate ==
    /\ program \in [backend : Backends, entry : {"library"}]
    /\ vcall \in [name : Names, type_desc : KindLabels, called : {FALSE},
                  err : {NoError}]
    /\ sortcall = NoSortCall
    /\ db = NoManager
    /\ handles = <<>>
    /\ last = NoCall

NextValidate == ValidateCall
SpecValidate == InitValidate /\ [][NextValidate]_vars

\* The sort of describe_table applied to each list of rows.
InitSort ==
    /\ program = [backend |-> "scylladb", entry |-> "library"]
    /\ vcall = NoVCall
    /\ sortcall \in [rows : ColumnLists, sorted : {FALSE}, columns : {<<>>}]
    /\ db = NoManager
    /\ handles = <<>>
    /\ last = NoCall

NextSort == SortCall
SpecSort == InitSort /\ [][NextSort]_vars

(***************************************************************************)
(* Properties                                                              *)
(***************************************************************************)
\* A string that is non-empty and made of ASCII letters, digits and
\* underscores only.
IsIdentifier(name) ==
    Len(name) >= 1 /\ \A i \in 1..Len(name) : name[i] \in NameClass

Count(seq, x) == Cardinality({i \in 1..Len(seq) : seq[i] = x})

\* The last call was an introspection operation that was entered (a tool
\* whose get_db raised never enters it).
OperationEntered ==
    /\ last.op \in Ops(program.backend)
    /\ last.constructed

\* C1: validate_name accepts a string if and only if it is non-empty and made
\* of ASCII letters, digits and underscores; every other string, a name that
\* ends in a newline included, is rejected with "Invalid <kind_label>: <name>".
C1_ValidateAcceptsExactlyIdentifiers ==
    vcall.called =>
        IF IsIdentifier(vcall.name)
        THEN vcall.err = NoError
        ELSE vcall.err = InvalidError(vcall.type_desc, vcall.name)

\* C2: an operation given an invalid identifier argument fails with the
\* invalid-identifier error, attempts no connection, executes no query and
\* leaves the session state as it was.
C2_InvalidIdentifierTouchesNothing ==
    (/\ OperationEntered
     /\ \/ Arity(last.op) >= 1 /\ ~IsIdentifier(last.a1)
        \/ Arity(last.op) = 2 /\ ~IsIdentifier(last.a2))
    => /\ last.err.type = "ValueError"
       /\ last.err.msg[1] = "Invalid"
       /\ last.connects = 0
       /\ last.queries = <<>>
       /\ ~last.changed

\* C3: a two-argument operation validates in argument order: an invalid
\* schema/keyspace is the error raised whatever the table is, and "Invalid
\* table name" is raised only when the first argument is valid and the table
\* is not.
C3_ValidatesInArgumentOrder ==
    (OperationEntered /\ Arity(last.op) = 2)
    => /\ ~IsIdentifier(last.a1)
          => last.err = InvalidError(NamespaceLabel(program.backend), last.a1)
       /\ last.err = InvalidError("table name", last.a2)
          => IsIdentifier(last.a1) /\ ~IsIdentifier(last.a2)

\* The kind order of the specification.
KindOrder == <<"partition_key", "clustering", "static", "regular">>
KindIndex(kind) == CHOOSE i \in 1..Len(KindOrder) : KindOrder[i] = kind

\* x may precede y: an earlier kind, or the same kind with a position that
\* is not greater, a missing position after every position.
MayPrecede(x, y) ==
    \/ KindIndex(x.kind) < KindIndex(y.kind)
    \/ /\ x.kind = y.kind
       /\ \/ y.position = NoPosition
          \/ x.position # NoPosition /\ x.position[1] <= y.position[1]

\* C4: describe_table of the wide-column backend returns the columns ordered
\* by kind (partition_key < clustering < static < regular), then by position
\* ascending, a missing position after every position of its kind, however
\* large; the example of the specification comes out as stated.
C4_ColumnsOrderedByKindThenPosition ==
    sortcall.sorted =>
        /\ Len(sortcall.columns) = Len(sortcall.rows)
        /\ \A i, j \in 1..Len(sortcall.columns) :
               i < j => MayPrecede(sortcall.columns[i], sortcall.columns[j])
        /\ sortcall.rows = ExampleColumns
           => sortcall.columns =
                  <<Col("partition_key", 0), Col("clustering", 0),
                    Col("static", 2), Col("regular", 1)>>

\* C5: on the relational backend no introspection query is ever executed on a
\* session that was not successfully marked read-only.
C5_QueriesOnlyOnReadOnlySessions ==
    program.backend = "postgresql"
    => \A i \in 1..Len(last.queries) : handles[last.queries[i]].readonly

LiveHandles(kinds) ==
    {h \in 1..Len(handles) : handles[h].live /\ handles[h].kind \in kinds}

\* C6: at most one session and at most one cluster/transport handle opened
\* by a manager is live at any time.
C6_AtMostOneLiveHandle ==
    /\ Cardinality(LiveHandles({"connection", "session"})) <= 1
    /\ Cardinality(LiveHandles({"cluster"})) <= 1

\* The manager db holds no live handle.
HoldsNothingLive ==
    \A h \in {db.conn, db.session, db.cluster} \ {None} : ~handles[h].live

\* Which handles are live.
Liveness == [h \in 1..Len(handles) |-> handles[h].live]

\* C7: close() completes without error and leaves the manager without a live
\* session or cluster handle, also on a manager that never connected; a
\* close() that follows a close() changes nothing.
C7_CloseIdempotent ==
    [][(last'.via = "direct" /\ last'.op = "close")
       => /\ last'.err = NoError
          /\ HoldsNothingLive'
          /\ last.op = "close" => (db' = db /\ Liveness' = Liveness)]_vars

\* A second close() on a manager that had connected and was closed.
C7_Witness ==
    /\ last.via = "direct" /\ last.op = "close"
    /\ SessionOf(program.backend, db) # None
    /\ handles[SessionOf(program.backend, db)].endedBy = "manager"
    /\ Count(last.closes, SessionOf(program.backend, db)) = 0

\* C8: when a tool has returned or raised, every handle opened during the
\* call is closed, and was closed by exactly one close/shutdown call of the
\* manager unless the driver or the backend had ended it already.
C8_ToolClosesWhatItOpened ==
    last.via = "tool"
    => /\ last.opened = 1..Len(handles)
       /\ \A h \in last.opened :
              /\ ~handles[h].live
              /\ Count(last.closes, h) <= 1
              /\ handles[h].endedBy = "manager" => Count(last.closes, h) = 1
              /\ handles[h].endedBy # "none"

\* A tool whose query failed after the session was opened.
C8_Witness ==
    /\ last.via = "tool"
    /\ last.queryFailed
    /\ last.opened # {}
    /\ \A h \in last.opened : Count(last.closes, h) = 1

\* C9: an operation whose connect step or query fails raises; it does not
\* return a list.
C9_FailureIsRaised ==
    (last.connectFailed \/ last.queryFailed)
    => last.err # NoError /\ ~last.returned

\* An operation whose query failed on a session that was already open.
C9_Witness ==
    /\ last.op \in Ops(program.backend)
    /\ last.queryFailed
    /\ last.connects = 0

\* A configuration from which user, password or database is absent.
Incomplete(config) == ~(config.user /\ config.password /\ config.database)

\* C10: on the relational backend a configuration without user, password or
\* database fails at construction: no manager exists with it and no connect
\* is attempted with it, through get_db and on direct construction.
C10_IncompleteConfigNeverConstructs ==
    program.backend = "postgresql"
    => /\ db.constructed => ~Incomplete(db.config)
       /\ (last.via # "none" /\ Incomplete(last.config))
          => ~last.constructed /\ last.connects = 0

\* C10 amended: on the relational backend a tool called through get_db with
\* user, password or database absent fails with the credentials error before
\* a manager is constructed and before any connection attempt.
C10_GetDbRejectsIncompleteConfig ==
    (/\ program.backend = "postgresql"
     /\ last.via = "tool"
     /\ Incomplete(last.config))
    => /\ last.err = CredentialsError
       /\ ~last.constructed
       /\ last.connects = 0
       /\ handles = <<>>

\* A tool called with the password absent.
C10_Witness ==
    /\ program.backend = "postgresql"
    /\ last.via = "tool"
    /\ last.config.user /\ ~last.config.password
    /\ last.err = CredentialsError

\* C11: every failure of an operation (invalid identifier, missing
\* configuration, connection failure, query failure) is logged with the
\* operation and its target identifiers before the error reaches the caller.
C11_EveryFailureIsLogged ==
    (last.op \in Ops(program.backend) /\ last.err # NoError)
    => \E i \in 1..Len(last.log) :
           /\ last.log[i].level = "error"
           /\ last.log[i].text = ErrorText(program.backend, last.op)
           /\ last.log[i].targets = Targets(last.op, last.a1, last.a2)

SessionKinds == {"connection", "session"}

\* The manager db holds a session that is live.
HoldsLiveSession ==
    /\ SessionOf(program.backend, db) # None
    /\ handles[SessionOf(program.backend, db)].live

\* The sessions opened by the call l, hs being the handles after it.
SessionsOpened(l, hs) == {h \in l.opened : hs[h].kind \in SessionKinds}

\* The call l opened exactly one session, which did not exist before and is
\* the one the manager m holds.
OpenedFreshSession(l, hs, m) ==
    /\ Cardinality(SessionsOpened(l, hs)) = 1
    /\ \A h \in SessionsOpened(l, hs) :
           /\ h > Len(handles)
           /\ SessionOf(program.backend, m) = h

\* The call l ran its queries on the session h only.
QueriesOn(l, h) == \A i \in 1..Len(l.queries) : l.queries[i] = h

BackendDiagnostics ==
    {DriverError(program.backend, what) :
         what \in {"connect", "set_session", "execute"}}
    \cup {OtherError("connect")}

\* C13: no retries: one call makes at most one connection attempt and
\* executes at most one query, and a failed attempt or query is what the
\* caller gets, with the backend's diagnostic, nothing being tried after it.
C13_NoRetries ==
    /\ last.connects <= 1
    /\ Len(last.queries) <= 1
    /\ last.connectFailed
       => /\ last.err \in BackendDiagnostics
          /\ last.queries = <<>>
          /\ ~last.returned
    /\ last.queryFailed
       => /\ last.err = DriverError(program.backend, "execute")
          /\ ~last.returned

\* An operation whose one connection attempt failed.
C13_Witness ==
    /\ last.op \in Ops(program.backend)
    /\ last.connectFailed
    /\ last.connects = 1
    /\ last.err = DriverError(program.backend, "connect")

====
